---- MODULE Spec2Model ----
(***************************************************************************)
(* Quote server (src/server/main.go) and quote client                      *)
(* (src/unnamed/part_000).                                                 *)
(*                                                                         *)
(* The server handles every GET /cotacao in its own goroutine              *)
(* (handleCotacao); the handler is cut into steps at its blocking calls    *)
(* (client.Do, the body read, db.ExecContext) and where it reads           *)
(* ctxAPI.Err() to choose the status, so that the timers of its contexts,  *)
(* the cancellation of the inbound request and the other handlers          *)
(* interleave with it.  Text that crosses the server/client       *)
(* boundary is a sequence of characters, encoded and decoded as            *)
(* encoding/json does it.                                                  *)
(***************************************************************************)
EXTENDS Naturals, Sequences, FiniteSets, Bags

(* Number of concurrent anonymous GET /cotacao requests in Spec. *)
NumHandlers == 2

(* db.SetMaxOpenConns(1) *)
MaxOpenConns == 1

(* net/http status codes used by the two programs. *)
StatusOK == 200
StatusInternalServerError == 500
StatusBadGateway == 502
StatusGatewayTimeout == 504

(* Handlers 1..NumHandlers serve anonymous callers; one more serves the     *)
(* modelled client.                                                         *)
Handlers == 1 .. NumHandlers
ClientHandler == NumHandlers + 1
AllHandlers == 1 .. ClientHandler

VARIABLES
    pc,         \* handler -> position in handleCotacao
    reqCtx,     \* handler -> r.Context().Err()
    ctxAPI,     \* handler -> the context of the outbound call
    ctxDB,      \* handler -> the context of the insert
    upstream,   \* handler -> how the exchange with the external API went
    quote,      \* handler -> apiResp.USDBRL as decoded
    execErr,    \* handler -> err of db.ExecContext
    logged,     \* handler -> the log line of the failure branch taken
    responses,  \* handler -> what was written to the ResponseWriter
    apiCalls,   \* handler -> number of client.Do calls issued
    execCalls,  \* handler -> number of db.ExecContext calls issued
    numOpen,    \* connections of the pool in use
    rows,       \* the quotes table: a bag of rows (id and ts only order them)
    cpc,        \* client: position in main
    cctx,       \* client: ctx
    cresp,      \* client: resp of http.DefaultClient.Do
    cfatal,     \* client: which log.Fatalf ended it
    clientCalls,\* client: number of Do calls issued
    file        \* contents of cotacao.txt

svars == <<pc, reqCtx, ctxAPI, ctxDB, upstream, quote, execErr, logged,
           responses, apiCalls, execCalls, numOpen, rows>>
cvars == <<cpc, cctx, cresp, cfatal, clientCalls, file>>
vars == <<pc, reqCtx, ctxAPI, ctxDB, upstream, quote, execErr, logged,
          responses, apiCalls, execCalls, numOpen, rows,
          cpc, cctx, cresp, cfatal, clientCalls, file>>

-----------------------------------------------------------------------------
(* Text *)

(* Bids the external API may quote: none, a plain one, one that needs escaping. *)
Bid543 == <<"5", ".", "4", "3">>
BidEsc == <<"<", "\"">>
NoBid == << >>

RECURSIVE Flatten(_)
Flatten(ss) == IF ss = << >> THEN << >> ELSE Head(ss) \o Flatten(Tail(ss))

(* encoding/json string escaping with EscapeHTML on (the Encoder default). *)
EscapeChar(c) ==
    CASE c = "\"" -> <<"\\", "\"">>
      [] c = "\\" -> <<"\\", "\\">>
      [] c = "<"  -> <<"\\", "u", "0", "0", "3", "c">>
      [] OTHER    -> <<c>>

EscapeString(s) == Flatten([i \in 1 .. Len(s) |-> EscapeChar(s[i])])

BidKey == <<"\"", "b", "i", "d", "\"", ":">>

(* json.NewEncoder(w).Encode(quoteResponse{Bid: bid}) *)
EncodeQuoteResponse(bid) ==
    <<"{">> \o BidKey \o <<"\"">> \o EscapeString(bid) \o <<"\"", "}", "\n">>

HasPrefix(s, p) == Len(s) >= Len(p) /\ SubSeq(s, 1, Len(p)) = p
Drop(s, n) == SubSeq(s, n + 1, Len(s))

(* Reads a JSON string body up to its closing quote: [ok, val, rest]. *)
RECURSIVE ReadString(_, _)
ReadString(s, acc) ==
    IF s = << >> THEN [ok |-> FALSE, val |-> acc, rest |-> s]
    ELSE IF Head(s) = "\"" THEN [ok |-> TRUE, val |-> acc, rest |-> Tail(s)]
    ELSE IF Head(s) = "\\" THEN
        IF HasPrefix(s, <<"\\", "\"">>) THEN ReadString(Drop(s, 2), Append(acc, "\""))
        ELSE IF HasPrefix(s, <<"\\", "\\">>) THEN ReadString(Drop(s, 2), Append(acc, "\\"))
        ELSE IF HasPrefix(s, <<"\\", "u", "0", "0", "3", "c">>)
            THEN ReadString(Drop(s, 6), Append(acc, "<"))
        ELSE [ok |-> FALSE, val |-> acc, rest |-> s]
    ELSE ReadString(Tail(s), Append(acc, Head(s)))

(* json.NewDecoder(body).Decode(&q) for q of type quoteResponse: the first  *)
(* JSON value of the stream, an object with at most the field "bid"; an     *)
(* absent field leaves the zero value "".                                   *)
DecodeQuoteResponse(body) ==
    IF HasPrefix(body, <<"{", "}">>) THEN [err |-> FALSE, Bid |-> NoBid]
    ELSE IF HasPrefix(body, <<"{">> \o BidKey \o <<"\"">>) THEN
        LET r == ReadString(Drop(body, 2 + Len(BidKey)), << >>) IN
        IF r.ok /\ HasPrefix(r.rest, <<"}">>) THEN [err |-> FALSE, Bid |-> r.val]
        ELSE [err |-> TRUE, Bid |-> NoBid]
    ELSE [err |-> TRUE, Bid |-> NoBid]

(* fmt.Sprintf("Dólar: %s", q.Bid) *)
FormatContent(bid) == <<"D", "ó", "l", "a", "r", ":", " ">> \o bid

(* http.Error(w, msg, code): the message and a newline as text/plain. *)
ErrorBody(msg) == <<msg, "\n">>

-----------------------------------------------------------------------------
(* context *)

NoCtx == [made |-> FALSE, err |-> "nil", timer |-> FALSE, linked |-> FALSE]

WithTimeoutBackground(parentErr) ==
    [made |-> TRUE, err |-> "nil", timer |-> TRUE, linked |-> FALSE]

WithCancelOnly(parentErr) ==
    [made |-> TRUE, err |-> parentErr, timer |-> FALSE, linked |-> TRUE]

(* context.WithTimeout(parent, d): a child that is done as soon as its     *)
(* parent is, and whose timer reports DeadlineExceeded after d.            *)
WithTimeout(parentErr) ==
    [made |-> TRUE, err |-> parentErr, timer |-> parentErr = "nil", linked |-> TRUE]

(* The CancelFunc of WithTimeout (run by defer): stops the timer. *)
Cancel(ctx) ==
    IF ctx.made /\ ctx.err = "nil"
    THEN [ctx EXCEPT !.err = "Canceled", !.timer = FALSE]
    ELSE [ctx EXCEPT !.timer = FALSE]

(* Cancellation of the parent reaches a child that is not yet done. *)
PropagateCancel(ctx) ==
    IF ctx.made /\ ctx.linked /\ ctx.err = "nil"
    THEN [ctx EXCEPT !.err = "Canceled", !.timer = FALSE]
    ELSE ctx

(* The timer of a context fires. *)
Expire(ctx) == [ctx EXCEPT !.err = "DeadlineExceeded", !.timer = FALSE]

NewRequestFailsBadURL(ctx) == TRUE

(* http.NewRequestWithContext(ctx, http.MethodGet, <constant URL>, nil):   *)
(* the method is valid and the URL parses, so it fails only on a nil ctx.  *)
NewRequestFails(ctx) == ~ctx.made

-----------------------------------------------------------------------------
(* External API *)

ZeroQuote == [Code |-> "", Codein |-> "", Bid |-> NoBid]

USDBRLOf(bid) == [code |-> "USD", codein |-> "BRL", bid |-> bid]

(* Bodies the external API may send with a 200: not JSON, JSON without     *)
(* "USDBRL", JSON whose USDBRL has no "bid", and complete quotes.          *)
UpstreamBodies ==
    { [json |-> FALSE],
      [json |-> TRUE],
      [json |-> TRUE, USDBRL |-> [code |-> "USD", codein |-> "BRL"]],
      [json |-> TRUE, USDBRL |-> USDBRLOf(NoBid)],
      [json |-> TRUE, USDBRL |-> USDBRLOf(Bid543)],
      [json |-> TRUE, USDBRL |-> USDBRLOf(BidEsc)] }

UpstreamStatuses == {StatusOK, StatusInternalServerError}

(* json.NewDecoder(resp.Body).Decode(&apiResp): absent fields keep their   *)
(* zero value.                                                              *)
DecodeAwesomeAPIResponse(body) ==
    IF ~body.json THEN [err |-> TRUE, USDBRL |-> ZeroQuote]
    ELSE IF "USDBRL" \notin DOMAIN body THEN [err |-> FALSE, USDBRL |-> ZeroQuote]
    ELSE LET o == body.USDBRL IN
         [err |-> FALSE,
          USDBRL |-> [Code   |-> IF "code" \in DOMAIN o THEN o.code ELSE "",
                      Codein |-> IF "codein" \in DOMAIN o THEN o.codein ELSE "",
                      Bid    |-> IF "bid" \in DOMAIN o THEN o.bid ELSE NoBid]]

-----------------------------------------------------------------------------
(* Server: handleCotacao *)

Active(h) == pc[h] \notin {"idle", "done"}

(* Writes the response and returns; the deferred cancelAPI and cancelDB run. *)
Reply(h, status, body, line) ==
    /\ responses' = [responses EXCEPT ![h] = Append(@, [status |-> status, body |-> body])]
    /\ logged' = [logged EXCEPT ![h] = line]
    /\ pc' = [pc EXCEPT ![h] = "done"]
    /\ ctxAPI' = [ctxAPI EXCEPT ![h] = Cancel(@)]
    /\ ctxDB' = [ctxDB EXCEPT ![h] = Cancel(@)]

(* Lines 79-89: the request arrives; ctxAPI is derived from r.Context(),   *)
(* the outbound request is built and client.Do is called.                  *)
Receive(h) ==
    /\ pc[h] = "idle"
    /\ LET ctx == WithTimeout(reqCtx[h]) IN
       IF NewRequestFails(ctx)
       THEN /\ responses' = [responses EXCEPT ![h] =
                    Append(@, [status |-> StatusInternalServerError,
                               body |-> ErrorBody("erro interno")])]
            /\ logged' = [logged EXCEPT ![h] = "newRequest"]
            /\ pc' = [pc EXCEPT ![h] = "done"]
            /\ ctxAPI' = [ctxAPI EXCEPT ![h] = Cancel(ctx)]
            /\ UNCHANGED apiCalls
       ELSE /\ ctxAPI' = [ctxAPI EXCEPT ![h] = ctx]
            /\ apiCalls' = [apiCalls EXCEPT ![h] = @ + 1]
            /\ pc' = [pc EXCEPT ![h] = "Do"]
            /\ UNCHANGED <<responses, logged>>
    /\ UNCHANGED <<reqCtx, ctxDB, upstream, quote, execErr, execCalls, numOpen, rows>>
    /\ UNCHANGED cvars

(* Line 89: Do returns a transport error (DNS, refused, reset, ...) while   *)
(* ctxAPI is not done.                                                      *)
DoTransportError(h) ==
    /\ pc[h] = "Do"
    /\ ctxAPI[h].err = "nil"
    /\ upstream' = [upstream EXCEPT ![h] = "transport"]
    /\ pc' = [pc EXCEPT ![h] = "DoErr"]
    /\ UNCHANGED <<reqCtx, ctxAPI, ctxDB, quote, execErr, logged, responses,
                   apiCalls, execCalls, numOpen, rows>>
    /\ UNCHANGED cvars

(* Line 89: Do returns because ctxAPI is done. *)
DoCtxError(h) ==
    /\ pc[h] = "Do"
    /\ ctxAPI[h].err # "nil"
    /\ upstream' = [upstream EXCEPT ![h] = "ctx"]
    /\ pc' = [pc EXCEPT ![h] = "DoErr"]
    /\ UNCHANGED <<reqCtx, ctxAPI, ctxDB, quote, execErr, logged, responses,
                   apiCalls, execCalls, numOpen, rows>>
    /\ UNCHANGED cvars

ClassifyDoErrorRetry(h) ==
    /\ pc[h] = "DoErr"
    /\ pc' = [pc EXCEPT ![h] = "Do"]
    /\ apiCalls' = [apiCalls EXCEPT ![h] = @ + 1]
    /\ UNCHANGED <<reqCtx, ctxAPI, ctxDB, upstream, quote, execErr, logged,
                   responses, execCalls, numOpen, rows>>
    /\ UNCHANGED cvars

(* Lines 90-99: err != nil; the branch is chosen by ctxAPI.Err(). *)
ClassifyDoError(h) ==
    /\ pc[h] = "DoErr"
    /\ IF ctxAPI[h].err = "DeadlineExceeded"
       THEN Reply(h, StatusGatewayTimeout, ErrorBody("timeout na API externa"), "apiTimeout")
       ELSE Reply(h, StatusBadGateway, ErrorBody("erro ao obter cotação"), "apiError")
    /\ UNCHANGED <<reqCtx, upstream, quote, execErr, apiCalls, execCalls, numOpen, rows>>
    /\ UNCHANGED cvars

(* Lines 89, 102-106: Do returns the response headers; a status other than *)
(* 200 ends the request, a 200 goes on to read the body.                   *)
DoResponse(h, status) ==
    /\ pc[h] = "Do"
    /\ ctxAPI[h].err = "nil"
    /\ IF status # StatusOK
       THEN /\ upstream' = [upstream EXCEPT ![h] = "status"]
            /\ Reply(h, StatusBadGateway, ErrorBody("falha na API externa"), "status")
       ELSE /\ pc' = [pc EXCEPT ![h] = "Decode"]
            /\ UNCHANGED <<upstream, responses, logged, ctxAPI, ctxDB>>
    /\ UNCHANGED <<reqCtx, quote, execErr, apiCalls, execCalls, numOpen, rows>>
    /\ UNCHANGED cvars

(* Lines 108-127: the body arrives and is decoded; an undecodable body or  *)
(* an empty bid ends the request, otherwise ctxDB is derived from          *)
(* r.Context() and db.ExecContext is called.                               *)
DecodeBody(h, body) ==
    /\ pc[h] = "Decode"
    /\ ctxAPI[h].err = "nil"
    /\ LET apiResp == DecodeAwesomeAPIResponse(body) IN
       IF apiResp.err
       THEN /\ upstream' = [upstream EXCEPT ![h] = "malformed"]
            /\ Reply(h, StatusBadGateway, ErrorBody("erro ao processar cotação"), "decode")
            /\ UNCHANGED <<quote, execCalls>>
       ELSE IF apiResp.USDBRL.Bid = NoBid
       THEN /\ upstream' = [upstream EXCEPT ![h] = "emptyBid"]
            /\ quote' = [quote EXCEPT ![h] = apiResp.USDBRL]
            /\ Reply(h, StatusBadGateway, ErrorBody("cotação indisponível"), "noBid")
            /\ UNCHANGED execCalls
       ELSE /\ upstream' = [upstream EXCEPT ![h] = "ok"]
            /\ quote' = [quote EXCEPT ![h] = apiResp.USDBRL]
            /\ ctxDB' = [ctxDB EXCEPT ![h] = WithTimeout(reqCtx[h])]
            /\ execCalls' = [execCalls EXCEPT ![h] = @ + 1]
            /\ pc' = [pc EXCEPT ![h] = "WaitConn"]
            /\ UNCHANGED <<ctxAPI, responses, logged>>
    /\ UNCHANGED <<reqCtx, execErr, apiCalls, numOpen, rows>>
    /\ UNCHANGED cvars

(* Line 109: reading the body fails in the transport (reset, short body)   *)
(* while ctxAPI is not done.                                                *)
DecodeTransportError(h) ==
    /\ pc[h] = "Decode"
    /\ ctxAPI[h].err = "nil"
    /\ upstream' = [upstream EXCEPT ![h] = "readErr"]
    /\ Reply(h, StatusBadGateway, ErrorBody("erro ao processar cotação"), "decode")
    /\ UNCHANGED <<reqCtx, quote, execErr, apiCalls, execCalls, numOpen, rows>>
    /\ UNCHANGED cvars

(* Line 109: reading the body fails because ctxAPI is done. *)
DecodeCtxError(h) ==
    /\ pc[h] = "Decode"
    /\ ctxAPI[h].err # "nil"
    /\ upstream' = [upstream EXCEPT ![h] = "readCtx"]
    /\ Reply(h, StatusBadGateway, ErrorBody("erro ao processar cotação"), "decode")
    /\ UNCHANGED <<reqCtx, quote, execErr, apiCalls, execCalls, numOpen, rows>>
    /\ UNCHANGED cvars

ConnAvailableUnlimited == TRUE

(* The pool hands out a connection only while fewer than MaxOpenConns are  *)
(* in use (db.SetMaxOpenConns(1), line 57).                                *)
ConnAvailable == numOpen < MaxOpenConns

(* Line 127: ExecContext obtains the connection of the pool. *)
AcquireConn(h) ==
    /\ pc[h] = "WaitConn"
    /\ ctxDB[h].err = "nil"
    /\ ConnAvailable
    /\ numOpen' = numOpen + 1
    /\ pc' = [pc EXCEPT ![h] = "Exec"]
    /\ UNCHANGED <<reqCtx, ctxAPI, ctxDB, upstream, quote, execErr, logged,
                   responses, apiCalls, execCalls, rows>>
    /\ UNCHANGED cvars

(* Lines 128-134: what is logged about the insert. *)
InsertLog(err, ctxErr) ==
    IF err = "nil" THEN "none"
    ELSE IF ctxErr = "DeadlineExceeded" THEN "dbTimeout" ELSE "dbError"

RespondStorageFatal(h, err) ==
    /\ execErr' = [execErr EXCEPT ![h] = err]
    /\ IF err = "nil"
       THEN Reply(h, StatusOK, EncodeQuoteResponse(quote[h].Bid), "none")
       ELSE Reply(h, StatusInternalServerError, ErrorBody("erro interno"),
                  InsertLog(err, ctxDB[h].err))

(* Lines 127-138: ExecContext has returned err; it is logged if not nil    *)
(* (the log line is chosen by ctxDB.Err()) and the bid is sent with a 200. *)
Respond(h, err) ==
    /\ execErr' = [execErr EXCEPT ![h] = err]
    /\ Reply(h, StatusOK, EncodeQuoteResponse(quote[h].Bid),
             InsertLog(err, ctxDB[h].err))

(* Line 127: ExecContext gives up waiting for a connection: ctxDB is done. *)
WaitConnCtxDone(h) ==
    /\ pc[h] = "WaitConn"
    /\ ctxDB[h].err # "nil"
    /\ Respond(h, "ctx")
    /\ UNCHANGED <<reqCtx, upstream, quote, apiCalls, execCalls, numOpen, rows>>
    /\ UNCHANGED cvars

(* insertQuoteQuery with the values of line 127 (code, codein, bid). *)
QuoteRow(h) == [code |-> quote[h].Code, codein |-> quote[h].Codein, bid |-> quote[h].Bid]

(* INSERT INTO quotes: one more row in the table. *)
Insert(table, row) == table (+) SetToBag({row})

ExecSucceedsTwice(h) ==
    /\ pc[h] = "Exec"
    /\ ctxDB[h].err = "nil"
    /\ rows' = Insert(Insert(rows, QuoteRow(h)), QuoteRow(h))
    /\ numOpen' = numOpen - 1
    /\ Respond(h, "nil")
    /\ UNCHANGED <<reqCtx, upstream, quote, apiCalls, execCalls>>
    /\ UNCHANGED cvars

(* Line 127: the INSERT is executed and the connection goes back to the    *)
(* pool.                                                                    *)
ExecSucceeds(h) ==
    /\ pc[h] = "Exec"
    /\ ctxDB[h].err = "nil"
    /\ rows' = Insert(rows, QuoteRow(h))
    /\ numOpen' = numOpen - 1
    /\ Respond(h, "nil")
    /\ UNCHANGED <<reqCtx, upstream, quote, apiCalls, execCalls>>
    /\ UNCHANGED cvars

(* Line 127: the INSERT fails in the database (busy, I/O, full disk). *)
ExecFails(h) ==
    /\ pc[h] = "Exec"
    /\ numOpen' = numOpen - 1
    /\ Respond(h, "db")
    /\ UNCHANGED <<reqCtx, upstream, quote, apiCalls, execCalls, rows>>
    /\ UNCHANGED cvars

(* Line 127: the running INSERT is interrupted because ctxDB is done. *)
ExecInterrupted(h) ==
    /\ pc[h] = "Exec"
    /\ ctxDB[h].err # "nil"
    /\ numOpen' = numOpen - 1
    /\ Respond(h, "ctx")
    /\ UNCHANGED <<reqCtx, upstream, quote, apiCalls, execCalls, rows>>
    /\ UNCHANGED cvars

(* Line 127: ctxDB is done just as the INSERT commits: the row is stored   *)
(* and ExecContext still reports the context's error.                      *)
ExecInterruptedLate(h) ==
    /\ pc[h] = "Exec"
    /\ ctxDB[h].err # "nil"
    /\ rows' = Insert(rows, QuoteRow(h))
    /\ numOpen' = numOpen - 1
    /\ Respond(h, "ctx")
    /\ UNCHANGED <<reqCtx, upstream, quote, apiCalls, execCalls>>
    /\ UNCHANGED cvars

(* apiTimeout elapses: the timer of ctxAPI fires.  Nothing reads ctxAPI     *)
(* once the body is decoded (its last reader is the body read of line 109), *)
(* so only an expiry up to that point is a step of the model.               *)
ApiDeadline(h) ==
    /\ pc[h] \in {"Do", "DoErr", "Decode"}
    /\ ctxAPI[h].timer
    /\ ctxAPI' = [ctxAPI EXCEPT ![h] = Expire(@)]
    /\ UNCHANGED <<pc, reqCtx, ctxDB, upstream, quote, execErr, logged, responses,
                   apiCalls, execCalls, numOpen, rows>>
    /\ UNCHANGED cvars

(* dbTimeout elapses: the timer of ctxDB fires. *)
DbDeadline(h) ==
    /\ Active(h)
    /\ ctxDB[h].timer
    /\ ctxDB' = [ctxDB EXCEPT ![h] = Expire(@)]
    /\ UNCHANGED <<pc, reqCtx, ctxAPI, upstream, quote, execErr, logged, responses,
                   apiCalls, execCalls, numOpen, rows>>
    /\ UNCHANGED cvars

(* The caller goes away while the handler runs: net/http cancels           *)
(* r.Context(), and with it the contexts derived from it.                  *)
CancelInbound(h) ==
    /\ Active(h)
    /\ reqCtx[h] = "nil"
    /\ reqCtx' = [reqCtx EXCEPT ![h] = "Canceled"]
    /\ ctxAPI' = [ctxAPI EXCEPT ![h] = PropagateCancel(@)]
    /\ ctxDB' = [ctxDB EXCEPT ![h] = PropagateCancel(@)]
    /\ UNCHANGED <<pc, upstream, quote, execErr, logged, responses,
                   apiCalls, execCalls, numOpen, rows>>
    /\ UNCHANGED cvars

HandlerStep(h) ==
    \/ DoTransportError(h)
    \/ DoCtxError(h)
    \/ ClassifyDoError(h)
    \/ \E status \in UpstreamStatuses : DoResponse(h, status)
    \/ \E body \in UpstreamBodies : DecodeBody(h, body)
    \/ DecodeTransportError(h)
    \/ DecodeCtxError(h)
    \/ AcquireConn(h)
    \/ WaitConnCtxDone(h)
    \/ ExecSucceeds(h)
    \/ ExecFails(h)
    \/ ExecInterrupted(h)
    \/ ExecInterruptedLate(h)
    \/ ApiDeadline(h)
    \/ DbDeadline(h)
    \/ CancelInbound(h)

-----------------------------------------------------------------------------
(* Client: main *)

(* What cotacao.txt may hold before the client runs. *)
PriorFiles == { << >>, FormatContent(<<"1">>) }

(* What another program listening on serverURL may answer. *)
ForeignStatuses == {StatusOK, StatusInternalServerError}
ForeignBodies ==
    { <<"{", "}">>,
      EncodeQuoteResponse(NoBid),
      EncodeQuoteResponse(Bid543),
      ErrorBody("not json") }

(* log.Fatalf: the process exits at once; deferred calls do not run. *)
Fatal(reason) ==
    /\ cfatal' = reason
    /\ cpc' = "fatal"

(* Lines 25-33: ctx with clientTimeout, the request is built and sent. *)
ClientStart ==
    /\ cpc = "start"
    /\ LET ctx == WithTimeout("nil") IN
       /\ cctx' = ctx
       /\ IF NewRequestFails(ctx)
          THEN Fatal("newRequest") /\ UNCHANGED clientCalls
          ELSE /\ cpc' = "Do"
               /\ clientCalls' = clientCalls + 1
               /\ UNCHANGED cfatal
    /\ UNCHANGED <<cresp, file>>
    /\ UNCHANGED svars

(* clientTimeout elapses. *)
ClientDeadline ==
    /\ cpc \in {"Do", "DoErr", "Decode", "Write"}
    /\ cctx.timer
    /\ cctx' = Expire(cctx)
    /\ UNCHANGED <<cpc, cresp, cfatal, clientCalls, file>>
    /\ UNCHANGED svars

(* Line 33: Do fails in the transport (refused, reset). *)
ClientDoTransportError ==
    /\ cpc = "Do"
    /\ cpc' = "DoErr"
    /\ UNCHANGED <<cctx, cresp, cfatal, clientCalls, file>>
    /\ UNCHANGED svars

(* Line 33: Do returns because ctx is done. *)
ClientDoCtxError ==
    /\ cpc = "Do"
    /\ cctx.err # "nil"
    /\ cpc' = "DoErr"
    /\ UNCHANGED <<cctx, cresp, cfatal, clientCalls, file>>
    /\ UNCHANGED svars

(* Lines 34-39: err != nil, fatal either way. *)
ClientClassifyDoError ==
    /\ cpc = "DoErr"
    /\ IF cctx.err = "DeadlineExceeded" THEN Fatal("timeout") ELSE Fatal("transport")
    /\ UNCHANGED <<cctx, cresp, clientCalls, file>>
    /\ UNCHANGED svars

(* Lines 33, 42-44: the headers of a response arrive. *)
ClientGotResponse(r) ==
    /\ cresp' = r
    /\ IF r.status # StatusOK
       THEN Fatal("status")
       ELSE cpc' = "Decode" /\ UNCHANGED cfatal
    /\ UNCHANGED <<cctx, clientCalls, file>>
    /\ UNCHANGED svars

(* The response of the handler that served the client, if the connection  *)
(* was still there when it was written.                                    *)
ClientDoResponse ==
    /\ cpc = "Do"
    /\ cctx.err = "nil"
    /\ pc[ClientHandler] = "done"
    /\ reqCtx[ClientHandler] = "nil"
    /\ responses[ClientHandler] # << >>
    /\ ClientGotResponse(responses[ClientHandler][1])

(* The response of some other program listening on serverURL. *)
ClientDoForeignResponse(status, body) ==
    /\ cpc = "Do"
    /\ cctx.err = "nil"
    /\ pc[ClientHandler] = "idle"
    /\ ClientGotResponse([status |-> status, body |-> body])

(* Lines 46-54: the body arrives and is decoded. *)
ClientDecodeBody ==
    /\ cpc = "Decode"
    /\ cctx.err = "nil"
    /\ LET q == DecodeQuoteResponse(cresp.body) IN
       IF q.err THEN Fatal("decode")
       ELSE IF q.Bid = NoBid THEN Fatal("noBid")
       ELSE cpc' = "Write" /\ UNCHANGED cfatal
    /\ UNCHANGED <<cctx, cresp, clientCalls, file>>
    /\ UNCHANGED svars

(* Line 47: reading the body fails (short body, reset, ctx done). *)
ClientDecodeReadError ==
    /\ cpc = "Decode"
    /\ Fatal("decode")
    /\ UNCHANGED <<cctx, cresp, clientCalls, file>>
    /\ UNCHANGED svars

(* Line 54 *)
Content == FormatContent(DecodeQuoteResponse(cresp.body).Bid)

WriteFileAppend ==
    /\ cpc = "Write"
    /\ file' = file \o Content
    /\ cpc' = "done"
    /\ cctx' = Cancel(cctx)
    /\ UNCHANGED <<cresp, cfatal, clientCalls>>
    /\ UNCHANGED svars

(* Lines 55-59: os.WriteFile truncates the file and writes content; main   *)
(* returns and the deferred cancel runs.                                   *)
WriteFileOK ==
    /\ cpc = "Write"
    /\ file' = Content
    /\ cpc' = "done"
    /\ cctx' = Cancel(cctx)
    /\ UNCHANGED <<cresp, cfatal, clientCalls>>
    /\ UNCHANGED svars

(* Lines 55-57: os.WriteFile cannot open the file. *)
WriteFileOpenError ==
    /\ cpc = "Write"
    /\ Fatal("write")
    /\ UNCHANGED <<cctx, cresp, clientCalls, file>>
    /\ UNCHANGED svars

(* Lines 55-57: os.WriteFile fails after truncating, n characters in. *)
WriteFileShort(n) ==
    /\ cpc = "Write"
    /\ file' = SubSeq(Content, 1, n)
    /\ Fatal("write")
    /\ UNCHANGED <<cctx, cresp, clientCalls>>
    /\ UNCHANGED svars

ClientNext ==
    \/ ClientStart
    \/ ClientDeadline
    \/ ClientDoTransportError
    \/ ClientDoCtxError
    \/ ClientClassifyDoError
    \/ ClientDoResponse
    \/ \E status \in ForeignStatuses, body \in ForeignBodies :
           ClientDoForeignResponse(status, body)
    \/ ClientDecodeBody
    \/ ClientDecodeReadError
    \/ WriteFileOK
    \/ WriteFileOpenError
    \/ \E n \in 0 .. (Len(Content) - 1) : WriteFileShort(n)

(* The client's request reaches the server. *)
ReceiveFromClient ==
    /\ cpc = "Do"
    /\ Receive(ClientHandler)

-----------------------------------------------------------------------------
(* Specifications *)

ServerInit ==
    /\ pc = [h \in AllHandlers |-> "idle"]
    /\ reqCtx = [h \in AllHandlers |-> "nil"]
    /\ ctxAPI = [h \in AllHandlers |-> NoCtx]
    /\ ctxDB = [h \in AllHandlers |-> NoCtx]
    /\ upstream = [h \in AllHandlers |-> "none"]
    /\ quote = [h \in AllHandlers |-> ZeroQuote]
    /\ execErr = [h \in AllHandlers |-> "nil"]
    /\ logged = [h \in AllHandlers |-> "none"]
    /\ responses = [h \in AllHandlers |-> << >>]
    /\ apiCalls = [h \in AllHandlers |-> 0]
    /\ execCalls = [h \in AllHandlers |-> 0]
    /\ numOpen = 0
    /\ rows = EmptyBag

ClientInit(prior) ==
    /\ cpc = "start"
    /\ cctx = NoCtx
    /\ cresp = [status |-> 0, body |-> << >>]
    /\ cfatal = "none"
    /\ clientCalls = 0
    /\ file = prior

Init == ServerInit /\ ClientInit(<< >>)

(* The server under NumHandlers concurrent requests. *)
Next == \E h \in Handlers : Receive(h) \/ HandlerStep(h)

Spec == Init /\ [][Next]_vars

(* The client and the handler that serves it. *)
SystemNext ==
    \/ ClientNext
    \/ ReceiveFromClient
    \/ HandlerStep(ClientHandler)

SystemInit == ServerInit /\ \E prior \in PriorFiles : ClientInit(prior)
SystemSpec == SystemInit /\ [][SystemNext]_vars

(* The steps of a handler that need nothing from outside: its own code, the *)
(* timers of its contexts, and the return of a blocking call whose context  *)
(* is done.                                                                 *)
Progress(h) ==
    \/ ApiDeadline(h)
    \/ DbDeadline(h)
    \/ DoCtxError(h)
    \/ ClassifyDoError(h)
    \/ DecodeCtxError(h)
    \/ WaitConnCtxDone(h)
    \/ ExecInterrupted(h)
    \/ ExecInterruptedLate(h)

(* The Go scheduler runs every runnable goroutine, armed timers fire, and a *)
(* blocking call whose context is done returns; nothing makes the external *)
(* API or the database answer.                                             *)
Fairness == \A h \in Handlers : WF_vars(Progress(h))

FairSpec == Spec /\ Fairness

-----------------------------------------------------------------------------
(* Properties *)

Done(h) == pc[h] = "done"
Status(h) == responses[h][1].status
Body(h) == responses[h][1].body
FetchedOK == {h \in AllHandlers : upstream[h] = "ok"}
Quiescent == \A h \in AllHandlers : pc[h] \in {"idle", "done"}

(* C1: a request whose upstream fetch gave a non-empty bid b is answered    *)
(* 200 with a JSON body that decodes to bid b, whatever the insert did      *)
(* (no error, database error, context done).                                *)
C1_Bid200 ==
    \A h \in AllHandlers :
        (Done(h) /\ upstream[h] = "ok") =>
            /\ quote[h].Bid # NoBid
            /\ execErr[h] \in {"nil", "db", "ctx"}
            /\ Status(h) = StatusOK
            /\ DecodeQuoteResponse(Body(h)) = [err |-> FALSE, Bid |-> quote[h].Bid]

C1_Witness ==
    \E h \in Handlers :
        /\ Done(h) /\ upstream[h] = "ok" /\ quote[h].Bid = BidEsc
        /\ execErr[h] = "ctx" /\ ctxDB[h].err = "DeadlineExceeded"
        /\ rows = EmptyBag
        /\ Status(h) = StatusOK

(* C2: whenever apiTimeout expired while the outbound call was in flight,  *)
(* before the quote was obtained (while Do waited for the headers, or while *)
(* the body was being read and decoded), the response is 504.               *)
C2_Deadline504 ==
    \A h \in AllHandlers :
        (Done(h) /\ upstream[h] \in {"ctx", "readCtx"}
                 /\ ctxAPI[h].err = "DeadlineExceeded") =>
            Status(h) = StatusGatewayTimeout

(* C3: a transport error that is no deadline expiry, a non-200 status, an   *)
(* undecodable body or an empty bid is answered 502, and an insert is only  *)
(* attempted after a non-empty bid was validated.                           *)
C3_BadGateway ==
    \A h \in AllHandlers :
        /\ (Done(h) /\ upstream[h] \in {"transport", "status", "readErr",
                                        "malformed", "emptyBid"}) =>
               (Status(h) = StatusBadGateway /\ execCalls[h] = 0)
        /\ execCalls[h] > 0 => (upstream[h] = "ok" /\ quote[h].Bid # NoBid)

(* The part of C3 that does not depend on how the Do error is classified:   *)
(* those failures never get a 200 and never reach the insert, and all but   *)
(* the transport error are answered 502.                                    *)
InsertOnlyAfterValidBid ==
    \A h \in AllHandlers :
        /\ (Done(h) /\ upstream[h] \in {"status", "readErr", "malformed", "emptyBid"}) =>
               Status(h) = StatusBadGateway
        /\ (Done(h) /\ upstream[h] = "transport") =>
               Status(h) \in {StatusBadGateway, StatusGatewayTimeout}
        /\ execCalls[h] > 0 => (upstream[h] = "ok" /\ quote[h].Bid # NoBid)

(* C4: every invocation writes exactly one response, none before it         *)
(* returns, and its status is 200, 502 or 504.                              *)
C4_OneResponse ==
    \A h \in AllHandlers :
        /\ Len(responses[h]) = (IF Done(h) THEN 1 ELSE 0)
        /\ Done(h) => Status(h) \in {StatusOK, StatusBadGateway, StatusGatewayTimeout}

C4_Witness ==
    \E h1, h2 \in Handlers :
        /\ Done(h1) /\ Status(h1) = StatusGatewayTimeout
        /\ Done(h2) /\ Status(h2) = StatusOK

Answer == DecodeQuoteResponse(cresp.body)
GoodAnswer == cresp.status = StatusOK /\ ~Answer.err /\ Answer.Bid # NoBid

(* C6 as stated: the file changes only when the client ends normally; once  *)
(* the server's answer was a 200 with a decodable non-empty bid b the       *)
(* client ends normally with the file holding exactly "Dólar: b"; a client  *)
(* that ends fatally leaves the file as it was.                             *)
C6_WriteIffAnswered ==
    [][ /\ file' # file => (cpc = "Write" /\ cpc' = "done")
        /\ (cpc = "Write" /\ cpc' # "Write") =>
               (cpc' = "done" /\ file' = FormatContent(Answer.Bid))
        /\ cpc' = "fatal" => file' = file ]_vars

(* C6 as amended: os.WriteFile is reached only with a 200 answer, received  *)
(* before the client deadline, whose body decodes to a non-empty bid b;     *)
(* when it succeeds the client ends normally and the file holds exactly     *)
(* "Dólar: b" (the bid the server fetched, when this server answered); when *)
(* it fails the client ends fatally with the file unchanged or cut short;   *)
(* every other end of the client is fatal and leaves the file unchanged.    *)
C6_WriteOnlyAnswered ==
    [][ /\ file' # file => cpc = "Write"
        /\ (cpc # "Write" /\ cpc' = "Write") =>
               (cpc = "Decode" /\ cctx.err = "nil" /\ GoodAnswer')
        /\ (cpc # "done" /\ cpc' = "done") =>
               /\ cpc = "Write" /\ GoodAnswer
               /\ file' = <<"D", "ó", "l", "a", "r", ":", " ">> \o Answer.Bid
               /\ pc[ClientHandler] = "done" =>
                      (upstream[ClientHandler] = "ok" /\ Answer.Bid = quote[ClientHandler].Bid)
        /\ (cpc = "Write" /\ cpc' = "fatal") =>
               /\ cfatal' = "write"
               /\ \/ file' = file
                  \/ \E n \in 0 .. (Len(Content) - 1) : file' = SubSeq(Content, 1, n)
        /\ (cpc # "Write" /\ cpc # "fatal" /\ cpc' = "fatal") =>
               /\ file' = file
               /\ cfatal' \in {"newRequest", "timeout", "transport", "status",
                                "decode", "noBid"}
        /\ (cpc \in {"fatal", "done"}) => (cpc' = cpc /\ file' = file) ]_vars

C6_Witness ==
    /\ cpc = "done"
    /\ pc[ClientHandler] = "done"
    /\ quote[ClientHandler].Bid = BidEsc
    /\ execErr[ClientHandler] = "db"
    /\ file = <<"D", "ó", "l", "a", "r", ":", " ", "<", "\"">>

(* C7: at most one handler is executing its INSERT at any moment, and the   *)
(* pool's count of connections in use says so.                              *)
C7_OneWriter ==
    /\ Cardinality({h \in AllHandlers : pc[h] = "Exec"}) <= 1
    /\ numOpen = Cardinality({h \in AllHandlers : pc[h] = "Exec"})

C7_Witness ==
    \E h1, h2 \in Handlers :
        /\ pc[h1] = "Exec"
        /\ pc[h2] = "WaitConn" /\ ctxDB[h2].err = "nil"

(* C8: once the inbound request is cancelled, the context of the            *)
(* sub-operation in flight is done; its timer does not fire afterwards, the *)
(* outbound call yields no response, the wait for the connection ends       *)
(* without acquiring it and a running insert returns an error.              *)
C8_CancelPropagates ==
    [][ \A h \in AllHandlers :
          /\ reqCtx'[h] = "Canceled" =>
                /\ ctxAPI'[h].made => ctxAPI'[h].err # "nil"
                /\ ctxDB'[h].made => ctxDB'[h].err # "nil"
          /\ reqCtx[h] = "Canceled" =>
                /\ ctxAPI'[h].err = "DeadlineExceeded" => ctxAPI[h].err = "DeadlineExceeded"
                /\ ctxDB'[h].err = "DeadlineExceeded" => ctxDB[h].err = "DeadlineExceeded"
                /\ pc[h] = "Do" => pc'[h] \in {"Do", "DoErr"}
                /\ pc[h] = "Decode" =>
                      (pc'[h] = "Decode" \/ (pc'[h] = "done" /\ upstream'[h] = "readCtx"))
                /\ pc[h] = "WaitConn" =>
                      (pc'[h] = "WaitConn" \/ (pc'[h] = "done" /\ execErr'[h] = "ctx"))
                /\ pc[h] = "Exec" =>
                      (pc'[h] = "Exec" \/ (pc'[h] = "done" /\ execErr'[h] # "nil")) ]_vars

C8_Witness ==
    \E h1, h2 \in Handlers :
        /\ pc[h1] = "Exec"
        /\ Done(h2) /\ execErr[h2] = "ctx"
        /\ reqCtx[h2] = "Canceled" /\ ctxDB[h2].err = "Canceled"
        /\ rows = EmptyBag

(* C9: a request issues at most one call to the external API and at most    *)
(* one insert, the client at most one request; a handler or client that     *)
(* has failed issues none after that.                                       *)
C9_NoRetry ==
    /\ \A h \in AllHandlers :
          /\ apiCalls[h] <= 1
          /\ execCalls[h] <= 1
          /\ apiCalls[h] = (IF pc[h] = "idle" THEN 0 ELSE 1)
          /\ execCalls[h] = (IF pc[h] \in {"WaitConn", "Exec"}
                                \/ (Done(h) /\ upstream[h] = "ok") THEN 1 ELSE 0)
    /\ clientCalls <= 1
    /\ clientCalls = (IF cpc = "start" THEN 0 ELSE 1)

C9_Witness ==
    /\ Done(ClientHandler)
    /\ apiCalls[ClientHandler] = 1
    /\ execCalls[ClientHandler] = 1 /\ execErr[ClientHandler] = "db"
    /\ cpc = "fatal" /\ cfatal = "timeout"
    /\ clientCalls = 1

(* C10: every handler that has started eventually writes its response and  *)
(* none waits forever on the external API, the connection or the insert:    *)
(* from some point on every handler is either not started or has returned   *)
(* with its one response written (a handler runs once, so this is "started  *)
(* leads to responded" for each of them).                                   *)
C10_Responds ==
    <>[](\A h \in Handlers : pc[h] = "idle" \/ (Done(h) /\ Len(responses[h]) = 1))

C10_Witness ==
    \E h1, h2 \in Handlers :
        /\ pc[h1] = "Exec" /\ ctxDB[h1].err = "nil"
        /\ Done(h2) /\ Status(h2) = StatusOK
        /\ execErr[h2] = "ctx" /\ logged[h2] = "dbTimeout"
        /\ rows = EmptyBag

====
